---- MODULE Spec2Model ----
(***************************************************************************)
(* A model of Lite-MySQL (src/main.py): the typed table engine (Table),    *)
(* the Database and its JSON persistence, and the statement handlers of    *)
(* LiteMySQL.                                                              *)
(*                                                                         *)
(* Python values are records [t |-> <python type>, v |-> <its text>].  A    *)
(* dict whose iteration order the code depends on (Database.tables, the    *)
(* `updates` of an UPDATE, the tables of a loaded document) is a sequence  *)
(* in insertion order; a dict that is only looked up and compared (a row,  *)
(* a schema) is a function.  A statement is given by what the handler's    *)
(* regular expression and splitters extract from its text.                 *)
(***************************************************************************)
EXTENDS Integers, Sequences, FiniteSets, TLC

VARIABLES
    db,      \* Database.tables: sequence of Tables in insertion order
    doc,     \* the persisted document lite_mysql_db.json
    out,     \* the kinds of the lines printed by the last statement
    reported, \* the row count the last UPDATE or DELETE reported
    last,    \* the last statement executed: command, table, WHERE shape
    call,    \* the direct call made on the engine (Table.update, Table.select, load)
    ret      \* what that call returned or raised

vars == <<db, doc, out, reported, last, call, ret>>

----------------------------------------------------------------------------
(* Bounds of the model *)

MaxRows == 2

MaxAssignments == 2

MaxSelectRows == 3

----------------------------------------------------------------------------
(* DataType and Python values *)

DataType == {"INTEGER", "FLOAT", "DATE", "TIME", "CHAR", "BINARY"}

None == [t |-> "NoneType", v |-> "None"]

PyInt(n) == [t |-> "int", v |-> n]
PyFloat(n) == [t |-> "float", v |-> n]
PyStr(s) == [t |-> "str", v |-> s]
PyDate(s) == [t |-> "date", v |-> s]
PyTime(s) == [t |-> "time", v |-> s]

\* The payload of a number is its decimal text; Halves gives its value in
\* halves, for the numbers the model uses.
Halves(s) ==
    CASE s = "0" -> 0 [] s = "1" -> 2 [] s = "2" -> 4 [] s = "3" -> 6
      [] s = "1.0" -> 2 [] s = "1.5" -> 3 [] s = "2.0" -> 4
      [] OTHER -> 0

\* Python's ==: an int and a float are equal when they denote the same number.
PyEq(x, y) ==
    IF x.t \in {"int", "float"} /\ y.t \in {"int", "float"}
    THEN Halves(x.v) = Halves(y.v)
    ELSE x = y

\* Python's < on two values of one column (of one type: numbers by value, the
\* texts of the model by their alphabetical rank).
StrRank(s) == CASE s = "x" -> 1 [] s = "y" -> 2 [] s = "z" -> 3 [] OTHER -> 0

PyLess(x, y) ==
    IF x.t \in {"int", "float"} THEN Halves(x.v) < Halves(y.v)
    ELSE StrRank(x.v) < StrRank(y.v)

\* A literal is its text and the first pattern of parse_value it matches:
\* "digits", "decimal", "quoted", "date", "time", or none of them ("bare").
Lit(form, text) == [form |-> form, text |-> text]

\* value_str.strip("'") on the quoted texts the model uses.
StripQuotes(s) == CASE s = "'x'" -> "x" [] s = "'y'" -> "y" [] s = "'z'" -> "z" [] OTHER -> s

parse_value(value_str) ==
    CASE value_str.form = "digits" -> PyInt(value_str.text)
      [] value_str.form = "decimal" -> PyFloat(value_str.text)
      [] value_str.form = "quoted" -> PyStr(StripQuotes(value_str.text))
      [] value_str.form = "date" -> PyDate(value_str.text)
      [] value_str.form = "time" -> PyTime(value_str.text)
      [] OTHER -> PyStr(value_str.text)

\* A validation that lets an int into a FLOAT column (implicit coercion).
validate_type_Coercing(value, data_type) ==
    CASE data_type = "INTEGER" -> value.t = "int"
      [] data_type = "FLOAT" -> value.t \in {"int", "float"}
      [] data_type = "DATE" -> value.t = "date"
      [] data_type = "TIME" -> value.t = "time"
      [] data_type = "CHAR" -> value.t = "str"
      [] data_type = "BINARY" -> value.t = "bytes"
      [] OTHER -> FALSE

validate_type(value, data_type) ==
    CASE data_type = "INTEGER" -> value.t = "int"
      [] data_type = "FLOAT" -> value.t = "float"
      [] data_type = "DATE" -> value.t = "date"
      [] data_type = "TIME" -> value.t = "time"
      [] data_type = "CHAR" -> value.t = "str"
      [] data_type = "BINARY" -> value.t = "bytes"
      [] OTHER -> FALSE

----------------------------------------------------------------------------
(* Python dicts kept in insertion order: sequences of <<key, value>> *)

DictKeys(d) == {d[i][1] : i \in DOMAIN d}

DictHas(d, k) == \E i \in DOMAIN d : d[i][1] = k

DictGet(d, k) == d[CHOOSE i \in DOMAIN d : d[i][1] = k][2]

\* d[k] = v: a present key keeps its position, a new key goes last.
DictSet(d, k, v) ==
    IF DictHas(d, k)
    THEN [i \in DOMAIN d |-> IF d[i][1] = k THEN <<k, v>> ELSE d[i]]
    ELSE Append(d, <<k, v>>)

\* dict(zip(keys, values)) and {k: v for ...}: pairs set in order.
RECURSIVE DictFromPairs(_, _)
DictFromPairs(pairs, d) ==
    IF pairs = <<>> THEN d
    ELSE DictFromPairs(Tail(pairs), DictSet(d, Head(pairs)[1], Head(pairs)[2]))

\* The same dict as a function (for rows and schemas, whose order is not used).
DictAsFcn(d) == [k \in DictKeys(d) |-> DictGet(d, k)]

----------------------------------------------------------------------------
(* Table *)

Table(name, schema) == [name |-> name, schema |-> schema, rows |-> <<>>]

Table_insert(table, record) ==
    IF DOMAIN record # DOMAIN table.schema
    THEN [exc |-> "ValueError", table |-> table]
    ELSE IF \E column \in DOMAIN record :
                ~validate_type(record[column], table.schema[column])
         THEN [exc |-> "TypeError", table |-> table]
         ELSE [exc |-> "none",
               table |-> [table EXCEPT !.rows = Append(table.rows, record)]]

\* A WHERE predicate is None or the closure  lambda row: row.get(col) == val.
Where(col, val) == [t |-> "lambda", col |-> col, val |-> val]

WhereHolds(where, row) ==
    /\ where.col \in DOMAIN row
    /\ PyEq(row[where.col], where.val)

\* `where is None or where(row)` of select and update.
Matches(where, row) == where = None \/ (where # None /\ WhereHolds(where, row))

\* An update that assigns before it validates.
RECURSIVE UpdateRow_AssignFirst(_, _, _, _)
UpdateRow_AssignFirst(row, schema, updates, j) ==
    IF j > Len(updates) THEN [exc |-> "none", row |-> row]
    ELSE LET column == updates[j][1]
             value == updates[j][2]
         IN IF column \in DOMAIN schema
            THEN IF ~validate_type(value, schema[column])
                 THEN [exc |-> "TypeError", row |-> [row EXCEPT ![column] = value]]
                 ELSE UpdateRow_AssignFirst([row EXCEPT ![column] = value],
                                            schema, updates, j + 1)
            ELSE UpdateRow_AssignFirst(row, schema, updates, j + 1)

\* for column, value in updates.items(): validate, then row[column] = value.
\* The first invalid value raises; the assignments before it stay in the row.
RECURSIVE UpdateRow(_, _, _, _)
UpdateRow(row, schema, updates, j) ==
    IF j > Len(updates) THEN [exc |-> "none", row |-> row]
    ELSE LET column == updates[j][1]
             value == updates[j][2]
         IN IF column \in DOMAIN schema
            THEN IF ~validate_type(value, schema[column])
                 THEN [exc |-> "TypeError", row |-> row]
                 ELSE UpdateRow([row EXCEPT ![column] = value], schema, updates, j + 1)
            ELSE UpdateRow(row, schema, updates, j + 1)

\* for row in self.rows: rows before index i are done, count rows have matched.
RECURSIVE UpdateRows(_, _, _, _, _)
UpdateRows(table, updates, where, i, count) ==
    IF i > Len(table.rows) THEN [exc |-> "none", table |-> table, count |-> count]
    ELSE IF Matches(where, table.rows[i])
         THEN LET r == UpdateRow(table.rows[i], table.schema, updates, 1)
                  t2 == [table EXCEPT !.rows[i] = r.row]
              IN IF r.exc # "none"
                 THEN [exc |-> r.exc, table |-> t2, count |-> count]
                 ELSE UpdateRows(t2, updates, where, i + 1, count + 1)
         ELSE UpdateRows(table, updates, where, i + 1, count)

Table_update(table, updates, where) == UpdateRows(table, updates, where, 1, 0)

\* [row for row in self.rows if not (where(row) if where else False)]
Table_delete(table, where) ==
    LET Keep(row) == ~(IF where # None THEN WhereHolds(where, row) ELSE FALSE)
        rows == SelectSeq(table.rows, Keep)
    IN [table |-> [table EXCEPT !.rows = rows],
        count |-> Len(table.rows) - Len(rows)]

\* list.sort(key=lambda x: x[col], reverse=reverse) is stable in both
\* directions: x goes before the first element that must come after it.
GoesBefore(x, e, col, reverse) ==
    IF reverse THEN PyLess(e[col], x[col]) ELSE PyLess(x[col], e[col])

InsertSorted(sorted, x, col, reverse) ==
    LET later == {k \in DOMAIN sorted : GoesBefore(x, sorted[k], col, reverse)}
        at == IF later = {} THEN Len(sorted) + 1
              ELSE CHOOSE k \in later : \A m \in later : k <= m
    IN SubSeq(sorted, 1, at - 1) \o <<x>> \o SubSeq(sorted, at, Len(sorted))

RECURSIVE SortFrom(_, _, _, _, _)
SortFrom(list, i, sorted, col, reverse) ==
    IF i > Len(list) THEN sorted
    ELSE SortFrom(list, i + 1, InsertSorted(sorted, list[i], col, reverse), col, reverse)

Reversed(s) == [i \in DOMAIN s |-> s[Len(s) + 1 - i]]

\* A descending sort written as "sort ascending, then reverse the list".
list_sort_ReverseAfter(list, col, reverse) ==
    IF reverse THEN Reversed(SortFrom(list, 1, <<>>, col, FALSE))
    ELSE SortFrom(list, 1, <<>>, col, FALSE)

list_sort(list, col, reverse) == SortFrom(list, 1, <<>>, col, reverse)

\* for ob in reversed(order_by): result.sort(...); k is the next key to sort by.
RECURSIVE OrderPasses(_, _, _)
OrderPasses(result, order_by, k) ==
    IF k = 0 THEN [exc |-> "none", result |-> result]
    ELSE LET col == order_by[k].column
             reverse == (order_by[k].direction = "DESC")
         IN IF \E i \in DOMAIN result : col \notin DOMAIN result[i]
            THEN [exc |-> "KeyError", result |-> result]
            ELSE OrderPasses(list_sort(result, col, reverse), order_by, k - 1)

Star == <<"*">>

\* columns is the list handle_select passes, ['*'] for every schema column;
\* order_by is a list of [column, direction], empty when there is no ORDER BY.
Table_select(table, columns, where, order_by) ==
    LET cols == IF columns = Star THEN DOMAIN table.schema
                ELSE {columns[i] : i \in DOMAIN columns}
        Hit(row) == Matches(where, row)
        hits == SelectSeq(table.rows, Hit)
    IN IF \E i \in DOMAIN hits : ~(cols \subseteq DOMAIN hits[i])
       THEN [exc |-> "KeyError", result |-> <<>>]
       ELSE LET result == [i \in DOMAIN hits |-> [c \in cols |-> hits[i][c]]]
            IN IF order_by = <<>>
               THEN [exc |-> "none", result |-> result]
               ELSE OrderPasses(result, order_by, Len(order_by))

----------------------------------------------------------------------------
(* Database: self.tables as a sequence of Tables, the key being the name *)

HasTable(tables, name) == \E i \in DOMAIN tables : tables[i].name = name

TableAt(tables, name) == CHOOSE i \in DOMAIN tables : tables[i].name = name

GetTable(tables, name) == tables[TableAt(tables, name)]

\* self.tables[name] = table
SetTable(tables, name, table) ==
    IF HasTable(tables, name)
    THEN [tables EXCEPT ![TableAt(tables, name)] = table]
    ELSE Append(tables, table)

create_table_NoExistsCheck(tables, name, schema) ==
    [exc |-> "none", tables |-> SetTable(tables, name, Table(name, schema))]

create_table(tables, name, schema) ==
    IF HasTable(tables, name)
    THEN [exc |-> "ValueError", tables |-> tables]
    ELSE [exc |-> "none", tables |-> SetTable(tables, name, Table(name, schema))]

drop_table(tables, name) ==
    IF HasTable(tables, name)
    THEN LET Other(t) == t.name # name
         IN [exc |-> "none", tables |-> SelectSeq(tables, Other)]
    ELSE [exc |-> "ValueError", tables |-> tables]

----------------------------------------------------------------------------
(* Persistence: the document is held as the JSON tree that json.load reads  *)
(* back.  A JSON scalar is [t |-> "jint" | "jreal" | "jstring", v |-> ...]. *)

\* A dump that writes a float without fraction as an integer (1.0 as 1).
json_dump_value_WholeAsInt(value) ==
    CASE value.t = "int" -> [t |-> "jint", v |-> value.v]
      [] value.t = "float" ->
            IF value.v = "1.0" THEN [t |-> "jint", v |-> "1"]
            ELSE [t |-> "jreal", v |-> value.v]
      [] OTHER -> [t |-> "jstring", v |-> value.v]

\* json.dump(..., default=str): numbers and text natively, a date or a time
\* through str().
json_dump_value(value) ==
    CASE value.t = "int" -> [t |-> "jint", v |-> value.v]
      [] value.t = "float" -> [t |-> "jreal", v |-> value.v]
      [] OTHER -> [t |-> "jstring", v |-> value.v]

json_load_value(j) ==
    CASE j.t = "jint" -> PyInt(j.v)
      [] j.t = "jreal" -> PyFloat(j.v)
      [] OTHER -> PyStr(j.v)

EntryFields == {"name", "schema", "rows"}

\* Table.to_dict followed by the dump of its values; key is the key under
\* which Database.to_dict puts it.
Table_to_dict(table) ==
    [key |-> table.name,
     fields |-> EntryFields,
     name |-> table.name,
     schema |-> [col \in DOMAIN table.schema |-> table.schema[col]],
     rows |-> [i \in DOMAIN table.rows |->
                 [col \in DOMAIN table.rows[i] |-> json_dump_value(table.rows[i][col])]]]

Database_to_dict(tables) == [i \in DOMAIN tables |-> Table_to_dict(tables[i])]

NoDocument == [exists |-> FALSE, decodes |-> FALSE, tables |-> <<>>]

\* save_to_file when the write succeeds.
save_to_file(tables) ==
    [exists |-> TRUE, decodes |-> TRUE, tables |-> Database_to_dict(tables)]

\* Table.from_dict on one entry of the document: data['schema'], DataType(dtype),
\* data['name'], data['rows'], in that order.
Table_from_dict(data) ==
    IF "schema" \notin data.fields THEN [exc |-> "KeyError"]
    ELSE IF \E col \in DOMAIN data.schema : data.schema[col] \notin DataType
    THEN [exc |-> "ValueError"]
    ELSE IF "name" \notin data.fields THEN [exc |-> "KeyError"]
    ELSE IF "rows" \notin data.fields THEN [exc |-> "KeyError"]
    ELSE [exc |-> "none",
          table |-> [name |-> data.name,
                     schema |-> data.schema,
                     rows |-> [i \in DOMAIN data.rows |->
                                 [col \in DOMAIN data.rows[i] |->
                                     json_load_value(data.rows[i][col])]]]]

\* The loop of load_from_file over data['tables'].items(): the entries before
\* index i are already in self.tables when entry i raises.
RECURSIVE LoadEntries(_, _, _)
LoadEntries(tables, entries, i) ==
    IF i > Len(entries) THEN [exc |-> "none", tables |-> tables]
    ELSE LET r == Table_from_dict(entries[i])
         IN IF r.exc # "none" THEN [exc |-> r.exc, tables |-> tables]
            ELSE LoadEntries(SetTable(tables, entries[i].key, r.table), entries, i + 1)

load_from_file(tables, document) ==
    IF ~document.exists THEN [exc |-> "none", msg |-> "NotFound", tables |-> tables]
    ELSE IF ~document.decodes
    THEN [exc |-> "JSONDecodeError", msg |-> "LoadError", tables |-> tables]
    ELSE LET r == LoadEntries(tables, document.tables, 1)
         IN [exc |-> r.exc,
             msg |-> IF r.exc = "none" THEN "Loaded" ELSE "LoadError",
             tables |-> r.tables]

----------------------------------------------------------------------------
(* LiteMySQL: the statement handlers.  A query is what the handler's regular *)
(* expression extracts: whether it matches, and the groups (already split    *)
(* and stripped).  A handler returns the tables, the document, the lines     *)
(* printed and the count reported.                                           *)

Done(tables, document, lines, n) ==
    [tables |-> tables, doc |-> document, out |-> lines, count |-> n]

\* Printing the success line, then self.db.save_to_file().
DoneSaved(tables, line, n) ==
    Done(tables, save_to_file(tables), <<line, "Saved">>, n)

\* str.upper() on the type names the model uses.
Upper(s) ==
    CASE s = "integer" -> "INTEGER" [] s = "float" -> "FLOAT" [] s = "index" -> "INDEX"
      [] OTHER -> s

\* The loop of handle_create over the column definitions; each part is the
\* list part.split().  Returns the schema dict or the line of the failure.
RECURSIVE CreateSchema(_, _, _)
CreateSchema(columns_parts, i, schema) ==
    IF i > Len(columns_parts) THEN [err |-> "none", schema |-> schema]
    ELSE LET parts == columns_parts[i]
         IN IF parts # <<>> /\ Upper(parts[1]) = "INDEX"
            THEN [err |-> "IndexUnsupported", schema |-> schema]
            ELSE IF Len(parts) # 2
            THEN [err |-> "ColumnDefError", schema |-> schema]
            ELSE IF Upper(parts[2]) \notin DataType
            THEN [err |-> "UnsupportedType", schema |-> schema]
            ELSE CreateSchema(columns_parts, i + 1,
                              DictSet(schema, parts[1], Upper(parts[2])))

handle_create(tables, document, query) ==
    IF ~query.matches THEN Done(tables, document, <<"GrammarError">>, 0)
    ELSE LET s == CreateSchema(query.columns, 1, <<>>)
         IN IF s.err # "none" THEN Done(tables, document, <<s.err>>, 0)
            ELSE LET r == create_table(tables, query.table, DictAsFcn(s.schema))
                 IN IF r.exc = "none" THEN DoneSaved(r.tables, "Created", 0)
                    ELSE Done(tables, document, <<"TableExists">>, 0)

Zip(keys, values) == [i \in DOMAIN keys |-> <<keys[i], values[i]>>]

handle_insert(tables, document, query) ==
    IF ~query.matches THEN Done(tables, document, <<"GrammarError">>, 0)
    ELSE LET values == [i \in DOMAIN query.values |-> parse_value(query.values[i])]
         IN IF Len(query.columns) # Len(values)
            THEN Done(tables, document, <<"CountMismatch">>, 0)
            ELSE LET record == DictAsFcn(DictFromPairs(Zip(query.columns, values), <<>>))
                 IN IF ~HasTable(tables, query.table)
                    THEN Done(tables, document, <<"TableNotFound">>, 0)
                    ELSE LET r == Table_insert(GetTable(tables, query.table), record)
                         IN CASE r.exc = "ValueError" ->
                                   Done(tables, document, <<"SchemaMismatch">>, 0)
                              [] r.exc = "TypeError" ->
                                   Done(tables, document, <<"TypeMismatch">>, 0)
                              [] OTHER ->
                                   DoneSaved(SetTable(tables, query.table, r.table),
                                             "Inserted", 0)

\* A WHERE text is None (the group did not take part in the match) or the
\* text, given by whether it has the shape  col = literal  and its two sides.
WhereText(col, lit) == [t |-> "text", shape |-> "eq", col |-> col, lit |-> lit]

OtherWhereText == [t |-> "text", shape |-> "other", col |-> "", lit |-> ""]

\* A rejected clause prints its line and returns None, as an absent one does.
parse_where(condition_str) ==
    IF condition_str = None THEN [where |-> None, out |-> <<>>]
    ELSE IF condition_str.shape # "eq"
    THEN [where |-> None, out |-> <<"WhereGrammar">>]
    ELSE [where |-> Where(condition_str.col, parse_value(condition_str.lit)), out |-> <<>>]

\* The loop of handle_update over the assignments; each is the list
\* assign.split('=').  Returns the updates dict, or the failure.
RECURSIVE ParseAssignments(_, _, _)
ParseAssignments(assignments, i, updates) ==
    IF i > Len(assignments) THEN [err |-> "none", updates |-> updates]
    ELSE LET parts == assignments[i]
         IN IF Len(parts) # 2 THEN [err |-> "AssignGrammar", updates |-> updates]
            ELSE ParseAssignments(assignments, i + 1,
                                  DictSet(updates, parts[1], parse_value(parts[2])))

handle_update(tables, document, query) ==
    IF ~query.matches THEN Done(tables, document, <<"GrammarError">>, 0)
    ELSE LET a == ParseAssignments(query.assignments, 1, <<>>)
         IN IF a.err # "none" THEN Done(tables, document, <<a.err>>, 0)
            ELSE LET w == parse_where(query.where)
                 IN IF ~HasTable(tables, query.table)
                    THEN Done(tables, document, w.out \o <<"TableNotFound">>, 0)
                    ELSE LET r == Table_update(GetTable(tables, query.table),
                                               a.updates, w.where)
                             after == SetTable(tables, query.table, r.table)
                         IN IF r.exc = "none"
                            THEN Done(after, save_to_file(after),
                                      w.out \o <<"Updated", "Saved">>, r.count)
                            ELSE Done(after, document, w.out \o <<"TypeMismatch">>, 0)

handle_delete(tables, document, query) ==
    IF ~query.matches THEN Done(tables, document, <<"GrammarError">>, 0)
    ELSE LET w == parse_where(query.where)
         IN IF ~HasTable(tables, query.table)
            THEN Done(tables, document, w.out \o <<"TableNotFound">>, 0)
            ELSE LET r == Table_delete(GetTable(tables, query.table), w.where)
                     after == SetTable(tables, query.table, r.table)
                 IN Done(after, save_to_file(after),
                         w.out \o <<"Deleted", "Saved">>, r.count)

handle_drop(tables, document, query) ==
    IF ~query.matches THEN Done(tables, document, <<"GrammarError">>, 0)
    ELSE LET r == drop_table(tables, query.table)
         IN IF r.exc = "none" THEN DoneSaved(r.tables, "Dropped", 0)
            ELSE Done(tables, document, <<"TableNotFound">>, 0)

----------------------------------------------------------------------------
(* The statements the model executes *)

\* CREATE and DROP name either table; rows are put in, changed and removed
\* in "t".
TableNames == {"t", "u"}

RowTables == {"t"}

L1 == Lit("digits", "1")
L2 == Lit("digits", "2")
Lf == Lit("decimal", "1.0")
Lx == Lit("quoted", "'x'")
Ly == Lit("bare", "y")
Ld == Lit("date", "2024-01-02")
Lt == Lit("time", "10:00:00")

SeqsUpTo(S, n) == UNION {[1..k -> S] : k \in 1..n}

\* (a INTEGER, b CHAR), (a float, b DATE), (a TIME), (a INTEGER, b BINARY),
\* an unsupported type, a definition of one word, an INDEX definition.
ColumnDefs ==
    { << <<"a", "INTEGER">>, <<"b", "CHAR">> >>,
      << <<"a", "float">>, <<"b", "DATE">> >>,
      << <<"a", "TIME">> >>,
      << <<"a", "INTEGER">>, <<"b", "BINARY">> >>,
      << <<"a", "TEXT">> >>,
      << <<"a">> >>,
      << <<"index", "a">> >> }

NoMatch(cmd) == [cmd |-> cmd, matches |-> FALSE, table |-> "", where |-> None]

CreateQueries ==
    {NoMatch("CREATE")} \cup
    {[cmd |-> "CREATE", matches |-> TRUE, table |-> n, columns |-> c, where |-> None] :
        n \in TableNames, c \in ColumnDefs}

InsertQueries ==
    {NoMatch("INSERT")} \cup
    {[cmd |-> "INSERT", matches |-> TRUE, table |-> n, columns |-> c, values |-> v,
      where |-> None] :
        n \in RowTables,
        c \in {<<"a", "b">>, <<"a">>, <<"a", "c">>, <<"a", "a">>},
        v \in SeqsUpTo({L1, L2, Lf, Lx, Ld, Lt}, 2)}

WhereTexts == {None, OtherWhereText, WhereText("a", L2), WhereText("b", Lx)}

Assignments ==
    { <<"a", L1>>, <<"a", Lx>>, <<"b", L1>>, <<"c", L1>>, <<"a">> }

UpdateQueries ==
    {NoMatch("UPDATE")} \cup
    {[cmd |-> "UPDATE", matches |-> TRUE, table |-> n, assignments |-> a, where |-> w] :
        n \in RowTables, a \in SeqsUpTo(Assignments, 2), w \in WhereTexts}

DeleteQueries ==
    {NoMatch("DELETE")} \cup
    {[cmd |-> "DELETE", matches |-> TRUE, table |-> n, where |-> w] :
        n \in RowTables, w \in WhereTexts}

DropQueries ==
    {NoMatch("DROP")} \cup
    {[cmd |-> "DROP", matches |-> TRUE, table |-> n, where |-> None] : n \in TableNames}

\* What is kept of the statement executed last.
Summary(query) ==
    [cmd |-> query.cmd,
     matches |-> query.matches,
     table |-> query.table,
     where |-> IF query.where = None THEN "absent"
               ELSE IF query.where.shape = "eq" THEN "eq" ELSE "malformed"]

NoStatement == [cmd |-> "", matches |-> FALSE, table |-> "", where |-> "absent"]

----------------------------------------------------------------------------
(* The interpreter: LiteMySQL() on a machine with no document, then one     *)
(* statement after the other.                                               *)

Init ==
    /\ db = <<>>
    /\ doc = NoDocument
    /\ out = <<>>
    /\ reported = 0
    /\ last = NoStatement
    /\ call = None
    /\ ret = None

Return(r, query) ==
    /\ db' = r.tables
    /\ doc' = r.doc
    /\ out' = r.out
    /\ reported' = r.count
    /\ last' = Summary(query)
    /\ UNCHANGED <<call, ret>>

Create == \E query \in CreateQueries : Return(handle_create(db, doc, query), query)

\* The model stops inserting into a table that holds MaxRows rows.
Insert ==
    \E query \in InsertQueries :
        /\ HasTable(db, query.table) => Len(GetTable(db, query.table).rows) < MaxRows
        /\ Return(handle_insert(db, doc, query), query)

Update == \E query \in UpdateQueries : Return(handle_update(db, doc, query), query)

Delete == \E query \in DeleteQueries : Return(handle_delete(db, doc, query), query)

Drop == \E query \in DropQueries : Return(handle_drop(db, doc, query), query)

\* The statements that can change the Database or the document.  SELECT reads
\* only (it is modelled by SpecSelect below); EXIT saves and ends the process.
Next == Create \/ Insert \/ Update \/ Delete \/ Drop

Spec == Init /\ [][Next]_vars

----------------------------------------------------------------------------
(* Properties of the interpreter *)

\* The DataType whose variant a value is.
TagOf(value) ==
    CASE value.t = "int" -> "INTEGER"
      [] value.t = "float" -> "FLOAT"
      [] value.t = "date" -> "DATE"
      [] value.t = "time" -> "TIME"
      [] value.t = "str" -> "CHAR"
      [] value.t = "bytes" -> "BINARY"
      [] OTHER -> "none"

Printed(lines, kind) == \E i \in DOMAIN lines : lines[i] = kind

ParseErrors ==
    {"GrammarError", "IndexUnsupported", "ColumnDefError", "UnsupportedType",
     "CountMismatch", "AssignGrammar", "WhereGrammar"}

ErrorKinds ==
    ParseErrors \cup {"SchemaMismatch", "TypeMismatch", "TableExists", "TableNotFound"}

Failed(lines) == \E i \in DOMAIN lines : lines[i] \in ErrorKinds

\* C1: every row of every table has exactly the columns of its table's schema,
\* and every value in it is of the variant declared for its column.
RowsFitSchema ==
    \A i \in DOMAIN db :
        \A k \in DOMAIN db[i].rows :
            /\ DOMAIN db[i].rows[k] = DOMAIN db[i].schema
            /\ \A col \in DOMAIN db[i].schema :
                  TagOf(db[i].rows[k][col]) = db[i].schema[col]

\* C1 witness: an UPDATE has just ended in TypeMismatch on a table that holds
\* MaxRows rows, next to a second table.
RowsFitSchemaWitness ==
    /\ last.cmd = "UPDATE"
    /\ Printed(out, "TypeMismatch")
    /\ Len(db) = 2
    /\ Len(GetTable(db, "t").rows) = MaxRows

\* C2: a DELETE without WHERE on an existing table removes every row and
\* reports the number of rows the table held.
DeleteAllWithoutWhere ==
    [][(/\ last'.cmd = "DELETE"
        /\ last'.matches
        /\ last'.where = "absent"
        /\ HasTable(db, last'.table))
       => /\ GetTable(db', last'.table).rows = <<>>
          /\ reported' = Len(GetTable(db, last'.table).rows)]_vars

\* C3: a statement that prints an error diagnostic leaves the Database as it
\* was.
FailureKeepsDatabase == [][Failed(out') => db' = db]_vars

\* C4: after a statement that changed the Database, the document is the
\* serialization of the Database.
ChangeIsPersisted == [][db' # db => doc' = save_to_file(db')]_vars

\* C8: an UPDATE or DELETE whose WHERE clause is not  column = literal  prints
\* a diagnostic and changes no row.
MalformedWhereSkipped ==
    [][(last'.cmd \in {"UPDATE", "DELETE"} /\ last'.where = "malformed")
       => (Failed(out') /\ db' = db)]_vars

\* C9: a CREATE TABLE that names an existing table fails with TableExists, a
\* DROP TABLE that names no table fails with TableNotFound, and both leave the
\* Database and the document as they were, without a save.
DuplicateAndMissingTable ==
    [][/\ (/\ last'.cmd = "CREATE"
           /\ last'.matches
           /\ HasTable(db, last'.table)
           /\ ~(\E i \in DOMAIN out' : out'[i] \in ParseErrors))
          => (out' = <<"TableExists">> /\ db' = db /\ doc' = doc)
       /\ (last'.cmd = "DROP" /\ last'.matches /\ ~HasTable(db, last'.table))
          => (out' = <<"TableNotFound">> /\ db' = db /\ doc' = doc)]_vars

\* C9 witness: a CREATE TABLE has just failed with TableExists on a table that
\* holds rows.
DuplicateTableWitness ==
    /\ last.cmd = "CREATE"
    /\ out = <<"TableExists">>
    /\ HasTable(db, last.table)
    /\ GetTable(db, last.table).rows # <<>>

----------------------------------------------------------------------------
(* Direct calls on the engine.  The tables they are made on are the tables  *)
(* that CREATE TABLE and INSERT build: a schema, and rows that Table.insert *)
(* accepts.                                                                 *)

ValuesOf(literals) == {parse_value(l) : l \in literals}

AcceptedRows(schema, values) ==
    {record \in [DOMAIN schema -> values] :
        Table_insert(Table("t", schema), record).exc = "none"}

TablesOf(name, schema, values, n) ==
    {[name |-> name, schema |-> schema, rows |-> rows] :
        rows \in {<<>>} \cup SeqsUpTo(AcceptedRows(schema, values), n)}

SchemaABC == [a |-> "INTEGER", b |-> "CHAR", c |-> "INTEGER"]

\* Table.update(updates, where) on a table of (a INTEGER, b CHAR, c INTEGER);
\* updates is the dict that the assignments, set one after the other, build.
UpdatePairs ==
    { <<"a", PyInt("2")>>, <<"a", PyStr("x")>>, <<"b", PyStr("y")>>,
      <<"b", PyInt("1")>>, <<"c", PyInt("2")>>, <<"d", PyInt("1")>> }

UpdateCalls ==
    {[op |-> "update", self |-> t, updates |-> DictFromPairs(a, <<>>), where |-> w] :
        t \in TablesOf("t", SchemaABC, ValuesOf({L1, L2, Lf, Lx, Ld}), MaxRows),
        a \in SeqsUpTo(UpdatePairs, MaxAssignments),
        w \in {None, Where("a", PyInt("2")), Where("b", PyStr("x"))}}

InitCall(calls) ==
    /\ db = <<>>
    /\ doc = NoDocument
    /\ out = <<>>
    /\ reported = 0
    /\ last = NoStatement
    /\ call \in calls
    /\ ret = None

InitUpdate == InitCall(UpdateCalls)

CallUpdate ==
    /\ call # None /\ call.op = "update" /\ ret = None
    /\ ret' = Table_update(call.self, call.updates, call.where)
    /\ UNCHANGED <<db, doc, out, reported, last, call>>

NextUpdate == CallUpdate

SpecUpdate == InitUpdate /\ [][NextUpdate]_vars

\* The rows the predicate of the call selects, and the first assignment of the
\* call whose value is not of the variant declared for its column.
MatchingRows == {i \in DOMAIN call.self.rows : Matches(call.where, call.self.rows[i])}

FirstMatching == CHOOSE i \in MatchingRows : \A k \in MatchingRows : i <= k

InvalidAssignments ==
    {j \in DOMAIN call.updates :
        /\ call.updates[j][1] \in DOMAIN call.self.schema
        /\ TagOf(call.updates[j][2]) # call.self.schema[call.updates[j][1]]}

FirstInvalid == CHOOSE j \in InvalidAssignments : \A k \in InvalidAssignments : j <= k

\* C10: when Table.update raises TypeError, the rows other than the first
\* matching row are as before, in the same order, and the first matching row
\* differs only in columns assigned before the invalid assignment.
AbortedUpdateFrame ==
    (ret # None /\ call.op = "update" /\ ret.exc = "TypeError") =>
        /\ MatchingRows # {} /\ InvalidAssignments # {}
        /\ ret.table.name = call.self.name
        /\ ret.table.schema = call.self.schema
        /\ Len(ret.table.rows) = Len(call.self.rows)
        /\ \A i \in DOMAIN call.self.rows :
              i # FirstMatching => ret.table.rows[i] = call.self.rows[i]
        /\ DOMAIN ret.table.rows[FirstMatching] = DOMAIN call.self.schema
        /\ \A col \in DOMAIN call.self.schema :
              ret.table.rows[FirstMatching][col] # call.self.rows[FirstMatching][col]
                 => \E j \in 1..(FirstInvalid - 1) : call.updates[j][1] = col

\* C10 witness: an aborted update on a table in which two rows match has
\* changed the first of them.
AbortedUpdateWitness ==
    /\ ret # None /\ call.op = "update" /\ ret.exc = "TypeError"
    /\ Cardinality(MatchingRows) >= 2
    /\ ret.table.rows[FirstMatching] # call.self.rows[FirstMatching]

----------------------------------------------------------------------------
(* Table.select with ORDER BY *)

OrderKeys == {[column |-> c, direction |-> d] : c \in {"a", "b"}, d \in {"ASC", "DESC"}}

OrderBys == {<<k>> : k \in OrderKeys} \cup {<<k1, k2>> : k1 \in OrderKeys, k2 \in OrderKeys}

SelectCalls ==
    {[op |-> "select", self |-> t, columns |-> c, where |-> None, order_by |-> o] :
        t \in TablesOf("t", SchemaABC, ValuesOf({L1, L2, Lx, Ly}), MaxSelectRows),
        c \in {Star, <<"a", "b">>},
        o \in OrderBys}

InitSelect == InitCall(SelectCalls)

CallSelect ==
    /\ call # None /\ call.op = "select" /\ ret = None
    /\ ret' = Table_select(call.self, call.columns, call.where, call.order_by)
    /\ UNCHANGED <<db, doc, out, reported, last, call>>

NextSelect == CallSelect

SpecSelect == InitSelect /\ [][NextSelect]_vars

\* Row x comes strictly before row y by the keys from index k on: the first
\* key on which they differ puts x first, in that key's direction.
RECURSIVE KeysBefore(_, _, _, _)
KeysBefore(x, y, order_by, k) ==
    IF k > Len(order_by) THEN FALSE
    ELSE LET col == order_by[k].column
             lt == PyLess(x[col], y[col])
             gt == PyLess(y[col], x[col])
         IN IF ~lt /\ ~gt THEN KeysBefore(x, y, order_by, k + 1)
            ELSE IF order_by[k].direction = "DESC" THEN gt ELSE lt

\* result is rows in the multi-key order of order_by: it lists the rows, each
\* once, by the keys, rows that no key tells apart in the order of rows.
IsMultiKeyOrder(result, rows, order_by) ==
    /\ Len(result) = Len(rows)
    /\ \E p \in [DOMAIN rows -> DOMAIN rows] :
          /\ \A i, j \in DOMAIN rows : i # j => p[i] # p[j]
          /\ \A i \in DOMAIN rows : result[i] = rows[p[i]]
          /\ \A i, j \in DOMAIN rows :
                i < j => \/ KeysBefore(rows[p[i]], rows[p[j]], order_by, 1)
                         \/ /\ ~KeysBefore(rows[p[j]], rows[p[i]], order_by, 1)
                            /\ p[i] < p[j]

\* C7: select with an ORDER BY list over projected columns returns the
\* projected rows in the multi-key order of the list, rows equal on every key
\* in insertion order.
OrderByIsMultiKey ==
    (ret # None /\ call.op = "select") =>
        /\ ret.exc = "none"
        /\ IsMultiKeyOrder(ret.result,
                           Table_select(call.self, call.columns, call.where, <<>>).result,
                           call.order_by)

\* C7 witness: three rows ordered by (a ASC, b DESC), two of them equal on a and
\* b and different on c, returned in another order than they were inserted.
OrderByWitness ==
    /\ ret # None /\ call.op = "select" /\ call.columns = Star
    /\ call.order_by = <<[column |-> "a", direction |-> "ASC"],
                         [column |-> "b", direction |-> "DESC"]>>
    /\ Len(ret.result) = 3
    /\ ret.result # call.self.rows
    /\ \E i, j \in DOMAIN ret.result :
          /\ i < j
          /\ ret.result[i].a = ret.result[j].a
          /\ ret.result[i].b = ret.result[j].b
          /\ ret.result[i].c # ret.result[j].c

----------------------------------------------------------------------------
(* save_to_file and load_from_file *)

CodecSchemas ==
    { [a |-> "INTEGER", b |-> "CHAR"], [a |-> "FLOAT"], [a |-> "INTEGER", b |-> "DATE"] }

CodecTables(name) ==
    UNION {TablesOf(name, schema, ValuesOf({L1, L2, Lf, Lit("decimal", "1.5"), Lx, Ly, Ld}),
                    MaxRows) : schema \in CodecSchemas}

\* Databases of one or two tables, as the statements build them.
CodecDatabases ==
    {<<>>}
    \cup {<<t>> : t \in CodecTables("t")}
    \cup {<<t, u>> : t \in CodecTables("t"), u \in TablesOf("u", [a |-> "FLOAT"],
                                                       ValuesOf({Lf}), 1)}
    \cup {<<u, t>> : t \in CodecTables("t"), u \in TablesOf("u", [a |-> "FLOAT"],
                                                       ValuesOf({Lf}), 1)}

\* Entries of a document that was not written by save_to_file: a field is
\* missing, or a schema tag is no DataType.
GoodEntry(key) ==
    Table_to_dict([name |-> key, schema |-> [a |-> "INTEGER"],
                   rows |-> <<[a |-> PyInt("1")]>>])

BadEntries(key) ==
    {[GoodEntry(key) EXCEPT !.fields = EntryFields \ {f}] : f \in EntryFields}
    \cup {[GoodEntry(key) EXCEPT !.schema = [a |-> "TEXT"]]}

Documents ==
    {[exists |-> TRUE, decodes |-> FALSE, tables |-> <<>>]}
    \cup {[exists |-> TRUE, decodes |-> TRUE, tables |-> e] :
            e \in {<<x>> : x \in BadEntries("t") \cup {GoodEntry("t")}}
                  \cup {<<x, y>> : x \in BadEntries("t") \cup {GoodEntry("t")},
                                   y \in BadEntries("u") \cup {GoodEntry("u")}}}

\* A document is malformed when it does not decode or an entry of it is not one
\* that from_dict can read.
Malformed(document) ==
    /\ document.exists
    /\ \/ ~document.decodes
       \/ \E i \in DOMAIN document.tables :
             \/ document.tables[i].fields # EntryFields
             \/ \E col \in DOMAIN document.tables[i].schema :
                   document.tables[i].schema[col] \notin DataType

InitCodec ==
    /\ db = <<>>
    /\ out = <<>>
    /\ reported = 0
    /\ last = NoStatement
    /\ ret = None
    /\ \/ doc = NoDocument /\ call \in {[op |-> "save", tables |-> d] : d \in CodecDatabases}
       \/ doc \in Documents /\ call = [op |-> "load", tables |-> <<>>]

\* Database.save_to_file() of the Database of the call.
CallSave ==
    /\ call.op = "save" /\ ~doc.exists
    /\ doc' = save_to_file(call.tables)
    /\ UNCHANGED <<db, out, reported, last, call, ret>>

\* Database().load_from_file(): the load of LiteMySQL.__init__.
CallLoad ==
    /\ doc.exists /\ ret = None
    /\ ret' = load_from_file(<<>>, doc)
    /\ UNCHANGED <<db, doc, out, reported, last, call>>

NextCodec == CallSave \/ CallLoad

SpecCodec == InitCodec /\ [][NextCodec]_vars

OnlyIntFloatChar(tables) ==
    \A i \in DOMAIN tables :
        \A col \in DOMAIN tables[i].schema :
            tables[i].schema[col] \in {"INTEGER", "FLOAT", "CHAR"}

\* C5: a Database with only INTEGER, FLOAT and CHAR columns, saved and loaded
\* into a fresh Database, is the same Database: tables, schemas, rows, values,
\* order.
RoundTrip ==
    (ret # None /\ call.op = "save" /\ OnlyIntFloatChar(call.tables)) =>
        (ret.exc = "none" /\ ret.tables = call.tables)

\* C5 witness: a Database of two tables, with an int, a text and a float in
\* its rows, has been saved and loaded.
RoundTripWitness ==
    /\ ret # None /\ call.op = "save" /\ OnlyIntFloatChar(call.tables)
    /\ Len(call.tables) = 2
    /\ \A i \in DOMAIN call.tables : Len(call.tables[i].rows) >= 1
    /\ Len(ret.tables) = 2

\* C6: the load of a malformed document reports an error and leaves an empty
\* Database.
MalformedLoadsEmpty ==
    (ret # None /\ call.op = "load" /\ Malformed(doc)) =>
        (ret.msg = "LoadError" /\ ret.tables = <<>>)

====
